---- MODULE Spec2Model ----
(***************************************************************************)
(* Model of rollback.State (src/rollback.py): a stack of Callback frames,  *)
(* the three registration methods, and the context-manager protocol        *)
(* (__enter__ / __exit__) driven by a single-threaded program of `with`    *)
(* blocks whose bodies register callables, nest further blocks, return or  *)
(* raise.  Registered callables are opaque: one that returns ("ok") and    *)
(* one that raises ("boom").                                               *)
(*                                                                         *)
(* Ghost state (regs, log, hist, and the owner / id tags) records who      *)
(* registered what and which exit invoked it; the code never reads it.     *)
(***************************************************************************)
EXTENDS Integers, Sequences, FiniteSets, TLC

VARIABLES stack, ctl, pc, exc, phase, todo, err, regs, log, hist

\* Two threads, each running one with block (second part of the module):
\* shared tells whether both use the module-level instance or each its own
\* State(); mstack maps a State instance to its stack; th is each thread's
\* position; mlog is the ghost record of invocations.
VARIABLES shared, mstack, th, mlog

tvars == <<shared, mstack, th, mlog>>

svars == <<stack, ctl, pc, exc, phase, todo, err, regs, log, hist>>

vars == <<stack, ctl, pc, exc, phase, todo, err, regs, log, hist,
          shared, mstack, th, mlog>>

\* Bounds of the exploration.
MaxScopes == 2     \* `with` blocks entered in one run
MaxRegs == 2       \* registration calls in one run

None == "none"
Fns == {"ok", "boom"}            \* the callables a program registers
BlockErrors == {"e1", "e2"}      \* errors a protected block raises
CallbackError == "boom_err"      \* the error the callable "boom" raises
IndexError == "IndexError"       \* self.stack[-1] on an empty stack

\* Ghost value of hist[s].parent for an __exit__ called directly, with no
\* with statement (and so no __enter__) around it.
Direct == 0 - 1

\* A callable that registers itself when it runs: def reg(): callback(reg).
Reentrant == "reg"

\* Calling c(): does it raise?
Raises(fn) == fn = "boom"

Front(s) == SubSeq(s, 1, Len(s) - 1)

\* Callback([], [], []): a fresh frame; owner is a ghost tag (the scope
\* whose __enter__ pushed it, 0 for the root frame of __init__).
Callback(owner) ==
    [callback |-> <<>>, success |-> <<>>, failure |-> <<>>, owner |-> owner]

RegTargetRoot == CHOOSE i \in 1..Len(stack) : \A j \in 1..Len(stack) : i <= j
\* self.stack[-1] as used by failure / success / callback.
RegTarget == Len(stack)

ExitFrameBelow == Len(stack) - 1
\* self.stack[-1] as used by __exit__.
ExitFrame == Len(stack)

Forward(s) == s
\* reversed(list): last appended first.
Reversed(s) == [i \in 1..Len(s) |-> s[Len(s) + 1 - i]]

PhasesSwapped(e) == <<"callback", IF e # None THEN "failure" ELSE "success">>
\* The lists __exit__ walks, in order: the branch selected by exc_type,
\* then the unconditional list.
Phases(e) == <<IF e # None THEN "failure" ELSE "success", "callback">>

\* The innermost `with` block in progress (0: module level).
CurScope == IF ctl = <<>> THEN 0 ELSE ctl[Len(ctl)]

Init ==
    /\ stack = <<Callback(0)>>
    /\ ctl = <<>>
    /\ pc = "run"
    /\ exc = None
    /\ phase = 0
    /\ todo = <<>>
    /\ err = None
    /\ regs = <<>>
    /\ log = <<>>
    /\ hist = <<>>
    /\ shared = TRUE
    /\ mstack = <<>>
    /\ th = <<>>
    /\ mlog = <<>>

RegisterStrict(kind, c) ==
    /\ pc = "run"
    /\ Len(regs) < MaxRegs
    /\ IF Len(stack) <= 1
       THEN /\ pc' = "raised"
            /\ err' = IndexError
            /\ UNCHANGED <<stack, regs>>
       ELSE /\ stack' = [stack EXCEPT ![RegTarget][kind] =
                            Append(@, [fn |-> c, id |-> Len(regs) + 1])]
            /\ regs' = Append(regs, [fn |-> c, kind |-> kind,
                                     scope |-> CurScope,
                                     frame |-> stack[RegTarget].owner,
                                     at |-> Len(hist),
                                     phase |-> phase])
            /\ UNCHANGED <<pc, err>>
    /\ UNCHANGED <<ctl, exc, phase, todo, log, hist>>
    /\ UNCHANGED tvars

\* Append c to one list of the top frame (body shared by the three
\* methods); self.stack[-1] raises IndexError when the stack is empty.
Register(kind, c) ==
    /\ pc = "run"
    /\ Len(regs) < MaxRegs
    /\ IF stack = <<>>
       THEN /\ pc' = "raised"
            /\ err' = IndexError
            /\ UNCHANGED <<stack, regs>>
       ELSE /\ stack' = [stack EXCEPT ![RegTarget][kind] =
                            Append(@, [fn |-> c, id |-> Len(regs) + 1])]
            /\ regs' = Append(regs, [fn |-> c, kind |-> kind,
                                     scope |-> CurScope,
                                     frame |-> stack[RegTarget].owner,
                                     at |-> Len(hist),
                                     phase |-> phase])
            /\ UNCHANGED <<pc, err>>
    /\ UNCHANGED <<ctl, exc, phase, todo, log, hist>>
    /\ UNCHANGED tvars

failure(c) == Register("failure", c)

success(c) == Register("success", c)

callback(c) == Register("callback", c)

\* `with rollback:` is reached: __enter__ pushes an empty frame.
Enter ==
    /\ pc = "run"
    /\ Len(hist) < MaxScopes
    /\ stack' = Append(stack, Callback(Len(hist) + 1))
    /\ ctl' = Append(ctl, Len(hist) + 1)
    /\ hist' = Append(hist, [parent |-> CurScope, status |-> "open",
                             exc |-> None, out |-> None,
                             before |-> Len(stack), after |-> 0,
                             frame |-> 0, nregs |-> 0,
                             uncaught |-> FALSE])
    /\ UNCHANGED <<pc, exc, phase, todo, err, regs, log>>
    /\ UNCHANGED tvars

\* The with statement calls __exit__(exc_type = e, ...): the first loop's
\* iterator is created over the selected list of the top frame.
ExitBegin(e) ==
    /\ ctl # <<>>
    /\ pc' = "exit"
    /\ exc' = e
    /\ phase' = 1
    /\ todo' = Reversed(stack[ExitFrame][Phases(e)[1]])
    /\ err' = None
    /\ hist' = [hist EXCEPT ![CurScope].status = "exiting",
                            ![CurScope].exc = e,
                            ![CurScope].frame = stack[ExitFrame].owner,
                            ![CurScope].nregs = Len(regs),
                            ![CurScope].uncaught = (pc = "raised")]
    /\ UNCHANGED <<stack, ctl, regs, log>>
    /\ UNCHANGED tvars

\* The protected block finishes without an error.
BlockReturns ==
    /\ pc = "run"
    /\ ExitBegin(None)

\* The protected block raises e.
BlockRaises(e) ==
    /\ pc = "run"
    /\ ExitBegin(e)

\* An error leaving an inner with statement is not caught in the enclosing
\* block: it leaves that block too.
Propagate ==
    /\ pc = "raised"
    /\ ExitBegin(err)

\* An error leaving a with statement is caught by the code around it
\* (try/except, assertRaises).
Catch ==
    /\ pc = "raised"
    /\ pc' = "run"
    /\ err' = None
    /\ UNCHANGED <<stack, ctl, exc, phase, todo, regs, log, hist>>
    /\ UNCHANGED tvars

InvokeSwallow ==
    /\ pc = "exit"
    /\ todo # <<>>
    /\ log' = Append(log, [id |-> Head(todo).id, exit |-> CurScope,
                           phase |-> phase])
    /\ todo' = Tail(todo)
    /\ UNCHANGED <<pc, err, ctl, exc, phase, hist, stack, regs>>
    /\ UNCHANGED tvars

\* One iteration of a `for callback in reversed(...)` loop: callback().
\* The callable may itself call callback(), which appends to the top frame
\* (the iterator of a loop already running does not see the new entry).
\* If it raises, the error leaves __exit__ at once: the rest of __exit__,
\* self.stack.pop() included, is not executed, and the with statement
\* raises the callback's error.
Invoke ==
    /\ pc = "exit"
    /\ todo # <<>>
    /\ log' = Append(log, [id |-> Head(todo).id, exit |-> CurScope,
                           phase |-> phase])
    /\ IF Raises(Head(todo).fn)
       THEN /\ pc' = "raised"
            /\ err' = CallbackError
            /\ ctl' = Front(ctl)
            /\ exc' = None
            /\ phase' = 0
            /\ todo' = <<>>
            /\ hist' = [hist EXCEPT ![CurScope].status = "closed",
                                    ![CurScope].out = CallbackError,
                                    ![CurScope].after = Len(stack)]
            /\ UNCHANGED <<stack, regs>>
       ELSE /\ todo' = Tail(todo)
            /\ UNCHANGED <<pc, err, ctl, exc, phase, hist>>
            /\ IF Head(todo).fn = Reentrant
               THEN /\ stack' = [stack EXCEPT ![RegTarget].callback =
                                    Append(@, [fn |-> Reentrant,
                                               id |-> Len(regs) + 1])]
                    /\ regs' = Append(regs, [fn |-> Reentrant,
                                             kind |-> "callback",
                                             scope |-> CurScope,
                                             frame |-> stack[RegTarget].owner,
                                             at |-> Len(hist),
                                             phase |-> phase])
               ELSE UNCHANGED <<stack, regs>>
    /\ UNCHANGED tvars

\* A loop of __exit__ is exhausted and another follows: its iterator is
\* created over the next list of the top frame.
NextList ==
    /\ pc = "exit"
    /\ todo = <<>>
    /\ phase < Len(Phases(exc))
    /\ phase' = phase + 1
    /\ todo' = Reversed(stack[ExitFrame][Phases(exc)[phase + 1]])
    /\ UNCHANGED <<stack, ctl, pc, exc, err, regs, log, hist>>
    /\ UNCHANGED tvars

\* The last loop is exhausted: self.stack.pop(), __exit__ returns None, and
\* the with statement re-raises the block's error if there was one (a
\* direct call of __exit__ just returns).
Pop ==
    /\ pc = "exit"
    /\ todo = <<>>
    /\ phase = Len(Phases(exc))
    /\ stack' = Front(stack)
    /\ ctl' = Front(ctl)
    /\ pc' = IF exc = None \/ hist[CurScope].parent = Direct
             THEN "run" ELSE "raised"
    /\ err' = IF hist[CurScope].parent = Direct THEN None ELSE exc
    /\ exc' = None
    /\ phase' = 0
    /\ hist' = [hist EXCEPT ![CurScope].status = "closed",
                            ![CurScope].out =
                                IF hist[CurScope].parent = Direct
                                THEN None ELSE exc,
                            ![CurScope].after = Len(stack) - 1]
    /\ UNCHANGED <<todo, regs, log>>
    /\ UNCHANGED tvars

Next ==
    \/ \E c \in Fns : failure(c)
    \/ \E c \in Fns : success(c)
    \/ \E c \in Fns : callback(c)
    \/ Enter
    \/ BlockReturns
    \/ \E e \in BlockErrors : BlockRaises(e)
    \/ Propagate
    \/ Catch
    \/ Invoke
    \/ NextList
    \/ Pop

Spec == Init /\ [][Next]_vars

\* ---------------------------------------------------------------------
\* Programs that also register the self-registering callable.
NextReentrant ==
    \/ Next
    \/ failure(Reentrant)
    \/ success(Reentrant)
    \/ callback(Reentrant)

SpecReentrant == Init /\ [][NextReentrant]_vars

\* ---------------------------------------------------------------------
\* Misuse: __exit__(e, ...) is called directly at module level, with no
\* matching __enter__.  It is the same __exit__: it walks and pops whatever
\* frame is on top, and self.stack[-1] faults only on an empty stack.
DirectExit(e) ==
    /\ pc = "run"
    /\ ctl = <<>>
    /\ Len(hist) < MaxScopes
    /\ IF stack = <<>>
       THEN /\ pc' = "raised"
            /\ err' = IndexError
            /\ hist' = Append(hist, [parent |-> Direct, status |-> "closed",
                                     exc |-> e, out |-> IndexError,
                                     before |-> 0, after |-> 0,
                                     frame |-> Direct, nregs |-> Len(regs),
                                     uncaught |-> FALSE])
            /\ UNCHANGED <<ctl, exc, phase, todo>>
       ELSE /\ pc' = "exit"
            /\ err' = None
            /\ ctl' = <<Len(hist) + 1>>
            /\ exc' = e
            /\ phase' = 1
            /\ todo' = Reversed(stack[ExitFrame][Phases(e)[1]])
            /\ hist' = Append(hist, [parent |-> Direct, status |-> "exiting",
                                     exc |-> e, out |-> None,
                                     before |-> Len(stack), after |-> 0,
                                     frame |-> stack[ExitFrame].owner,
                                     nregs |-> Len(regs),
                                     uncaught |-> FALSE])
    /\ UNCHANGED <<stack, regs, log>>
    /\ UNCHANGED tvars

NextMisuse ==
    \/ Next
    \/ \E e \in BlockErrors \cup {None} : DirectExit(e)

SpecMisuse == Init /\ [][NextMisuse]_vars


\* ---------------------------------------------------------------------
\* Two threads.  Each runs `with <state>: <registrations>; return / raise`
\* once; the steps of the two threads interleave (one bytecode-level step
\* of State at a time: __enter__'s append, a registration's append, the
\* creation of a loop's iterator, one callback(), the pop).
Threads == {1, 2}

StateOfGlobal(t) == 1
\* The State instance thread t uses: the module-level _state (lines
\* 119-123) when shared, otherwise an instance of its own.
StateOf(t) == IF shared THEN 1 ELSE t

Idle == [pc |-> "idle", exc |-> None, phase |-> 0, todo |-> <<>>,
         out |-> None, popped |-> 0]

InitThreads ==
    /\ shared \in BOOLEAN
    /\ mstack = [i \in Threads |-> <<Callback(0)>>]
    /\ th = [t \in Threads |-> Idle]
    /\ mlog = <<>>
    /\ stack = <<Callback(0)>>
    /\ ctl = <<>>
    /\ pc = "run"
    /\ exc = None
    /\ phase = 0
    /\ todo = <<>>
    /\ err = None
    /\ regs = <<>>
    /\ log = <<>>
    /\ hist = <<>>

\* The stack thread t works on, and its top frame.
StackOf(t) == mstack[StateOf(t)]
TopOf(t) == StackOf(t)[Len(StackOf(t))]

\* Registrations made so far by both threads (entries still on a stack
\* and entries already invoked or popped are counted by the ghost field).
NumRegs == Len(SelectSeq(mlog, LAMBDA l : l.what = "reg"))

\* Thread t reaches its with statement: __enter__.
TEnter(t) ==
    /\ th[t].pc = "idle"
    /\ mstack' = [mstack EXCEPT ![StateOf(t)] = Append(@, Callback(t))]
    /\ th' = [th EXCEPT ![t].pc = "body"]
    /\ UNCHANGED <<shared, mlog>>
    /\ UNCHANGED svars

\* Thread t, in its block, calls failure / success / callback (kind) with c.
TRegister(t, kind, c) ==
    /\ th[t].pc = "body"
    /\ NumRegs < MaxRegs
    /\ mstack' = [mstack EXCEPT ![StateOf(t)][Len(StackOf(t))][kind] =
                      Append(@, [fn |-> c, id |-> t])]
    /\ mlog' = Append(mlog, [what |-> "reg", by |-> t, of |-> t,
                             kind |-> kind, frame |-> TopOf(t).owner])
    /\ UNCHANGED <<shared, th>>
    /\ UNCHANGED svars

\* Thread t's block returns (e = None) or raises e: __exit__ starts and
\* creates the iterator of its first loop over the top frame.
TExitBegin(t, e) ==
    /\ th[t].pc = "body"
    /\ th' = [th EXCEPT ![t].pc = "exit", ![t].exc = e, ![t].phase = 1,
                        ![t].todo = Reversed(TopOf(t)[Phases(e)[1]])]
    /\ UNCHANGED <<shared, mstack, mlog>>
    /\ UNCHANGED svars

\* One callback() in thread t's __exit__; a raising callable ends the
\* __exit__ without the pop.
TInvoke(t) ==
    /\ th[t].pc = "exit"
    /\ th[t].todo # <<>>
    /\ mlog' = Append(mlog, [what |-> "call", by |-> t,
                             of |-> Head(th[t].todo).id,
                             kind |-> Phases(th[t].exc)[th[t].phase],
                             frame |-> 0])
    /\ th' = IF Raises(Head(th[t].todo).fn)
             THEN [th EXCEPT ![t].pc = "done", ![t].todo = <<>>,
                             ![t].out = CallbackError]
             ELSE [th EXCEPT ![t].todo = Tail(@)]
    /\ UNCHANGED <<shared, mstack>>
    /\ UNCHANGED svars

\* The next loop of thread t's __exit__ starts on the frame that is on top
\* now.
TNextList(t) ==
    /\ th[t].pc = "exit"
    /\ th[t].todo = <<>>
    /\ th[t].phase < Len(Phases(th[t].exc))
    /\ th' = [th EXCEPT ![t].phase = @ + 1,
                        ![t].todo =
                            Reversed(TopOf(t)[Phases(th[t].exc)[th[t].phase + 1]])]
    /\ UNCHANGED <<shared, mstack, mlog>>
    /\ UNCHANGED svars

\* self.stack.pop() in thread t's __exit__: whatever frame is on top.
TPop(t) ==
    /\ th[t].pc = "exit"
    /\ th[t].todo = <<>>
    /\ th[t].phase = Len(Phases(th[t].exc))
    /\ mstack' = [mstack EXCEPT ![StateOf(t)] = Front(@)]
    /\ th' = [th EXCEPT ![t].pc = "done", ![t].out = th[t].exc,
                        ![t].popped = TopOf(t).owner]
    /\ UNCHANGED <<shared, mlog>>
    /\ UNCHANGED svars

NextThreads ==
    \E t \in Threads :
        \/ TEnter(t)
        \/ \E k \in {"callback", "success", "failure"} : \E c \in Fns :
               TRegister(t, k, c)
        \/ \E e \in BlockErrors \cup {None} : TExitBegin(t, e)
        \/ TInvoke(t)
        \/ TNextList(t)
        \/ TPop(t)

SpecThreads == InitThreads /\ [][NextThreads]_vars

\* ---------------------------------------------------------------------
\* Vocabulary of the properties.
Scopes == 1..Len(hist)
RegIds == 1..Len(regs)
LogIdx == 1..Len(log)
Closed(s) == hist[s].status = "closed"

\* How many times the exit of scope s invoked registration r.
Count(s, r) == Cardinality({i \in LogIdx : log[i].exit = s /\ log[i].id = r})

\* C1: for every scope, a normal exit invokes each success and each
\* unconditional registration made in that scope exactly once, and none
\* of its failure registrations.
C1_NormalExitRunsSuccessAndCallback ==
    \A s \in Scopes :
        (Closed(s) /\ hist[s].exc = None) =>
            \A r \in RegIds :
                regs[r].scope = s =>
                    Count(s, r) = IF regs[r].kind = "failure" THEN 0 ELSE 1

\* C2: for every scope, an exit caused by an exception invokes each failure
\* and each unconditional registration made in that scope exactly once, and
\* none of its success registrations.
C2_FailingExitRunsFailureAndCallback ==
    \A s \in Scopes :
        (Closed(s) /\ hist[s].exc # None) =>
            \A r \in RegIds :
                regs[r].scope = s =>
                    Count(s, r) = IF regs[r].kind = "success" THEN 0 ELSE 1

\* C3: no step invokes a registration while the scope it was registered in
\* is still open (its block running, nested blocks included); a
\* registration made at module level, whose scope never exits, is never
\* invoked.
C3_NoEarlyExecution ==
    [][\A i \in (Len(log) + 1)..Len(log') :
           /\ regs[log'[i].id].scope # 0
           /\ hist[regs[log'[i].id].scope].status # "open"]_vars

\* C3 witness: a registration made before a nested scope was entered and
\* exited has been invoked by the exit of its own scope.
C3_Witness ==
    \E i \in LogIdx : \E t \in Scopes :
        /\ regs[log[i].id].scope = log[i].exit
        /\ hist[t].parent = log[i].exit
        /\ Closed(t)
        /\ regs[log[i].id].at < t

\* Two registrations in the same list of the same frame, a made before b.
SameList(a, b) ==
    /\ a < b
    /\ regs[a].frame = regs[b].frame
    /\ regs[a].kind = regs[b].kind

\* C4: within one exit, for registrations a before b in the same list of
\* the same frame, a is invoked only after b has been invoked.
C4_ReverseRegistrationOrder ==
    \A i \in LogIdx : \A b \in RegIds :
        (SameList(log[i].id, b) /\ b <= hist[log[i].exit].nregs) =>
            \E j \in 1..(i - 1) : log[j].exit = log[i].exit /\ log[j].id = b

\* C4 witness: an exit has invoked two registrations of the same list.
C4_Witness ==
    \E i, j \in LogIdx :
        /\ i < j
        /\ log[i].exit = log[j].exit
        /\ SameList(log[j].id, log[i].id)

\* C5: in every exit the invocations of the selected branch list (failure
\* when exc_type is set, success otherwise) all precede the invocations of
\* the unconditional list, and every invocation happens inside __exit__,
\* with the frame still on the stack and before the with statement has
\* raised anything to its caller.
C5_BranchBeforeUnconditionalBeforePop ==
    /\ [](\A i \in LogIdx :
            /\ regs[log[i].id].kind =
                   IF log[i].phase = 2 THEN "callback"
                   ELSE IF hist[log[i].exit].exc # None THEN "failure"
                   ELSE "success"
            /\ \A j \in LogIdx :
                   (i < j /\ log[i].exit = log[j].exit) =>
                       log[i].phase <= log[j].phase)
    /\ [][/\ log' # log =>
                /\ pc = "exit"
                /\ err = None
                /\ stack' = stack
                /\ hist[CurScope].status = "exiting"
          /\ Len(stack') < Len(stack) =>
                /\ pc = "exit"
                /\ todo = <<>>
                /\ phase = 2
                /\ log' = log]_vars

\* C5 witness: a failing exit invoked a failure action, then an
\* unconditional action, popped its frame and raised the block's error.
C5_Witness ==
    \E i, j \in LogIdx :
        /\ i < j
        /\ log[i].exit = log[j].exit
        /\ regs[log[i].id].kind = "failure"
        /\ regs[log[j].id].kind = "callback"
        /\ Closed(log[i].exit)
        /\ hist[log[i].exit].out \in BlockErrors
        /\ pc = "raised"

\* The registrations that were in the unconditional list of the frame the
\* exit of scope s walked, when that exit began.
ExitCallbackList(s) ==
    {r \in RegIds : /\ r <= hist[s].nregs
                    /\ regs[r].frame = hist[s].frame
                    /\ regs[r].kind = "callback"}

\* C6: every exit, normal or failing, invokes every action of the exiting
\* frame's unconditional list, whatever happened while the success or
\* failure list was run.
C6_UnconditionalAlwaysRuns ==
    \A s \in Scopes :
        Closed(s) => \A r \in ExitCallbackList(s) : Count(s, r) >= 1

\* C7: when an inner scope exits by an error that is caught in the outer
\* block and the outer scope then exits normally, the inner exit invokes
\* only failure and unconditional registrations of the inner scope, and the
\* outer exit invokes the outer scope's success and unconditional
\* registrations, nothing of the inner scope and none of the outer scope's
\* failure registrations.
C7_NestedScopesIndependent ==
    \A t \in Scopes :
        LET s == hist[t].parent IN
        (/\ s # 0
         /\ Closed(t) /\ hist[t].exc # None
         /\ Closed(s) /\ hist[s].exc = None) =>
            /\ \A i \in LogIdx :
                   log[i].exit = t =>
                       /\ regs[log[i].id].scope = t
                       /\ regs[log[i].id].kind \in {"failure", "callback"}
            /\ \A i \in LogIdx :
                   log[i].exit = s => regs[log[i].id].scope = s
            /\ \A r \in RegIds :
                   regs[r].scope = s =>
                       Count(s, r) = IF regs[r].kind = "failure" THEN 0 ELSE 1

\* C8: every registration lands in the frame pushed by the innermost scope
\* that is entered and not yet exited at the call (the root frame at module
\* level), and is invoked, if at all, by the exit of that scope.
C8_RegistrationTargetsInnermostScope ==
    /\ \A r \in RegIds : regs[r].frame = regs[r].scope
    /\ \A i \in LogIdx : log[i].exit = regs[log[i].id].scope

\* C9: when the protected block raised an error, the with statement raises
\* that same error to its caller once the exit is over: never none, never
\* another error.
C9_BlockErrorReachesCallerUnchanged ==
    \A s \in Scopes :
        (Closed(s) /\ hist[s].exc # None) => hist[s].out = hist[s].exc

\* C10: the stack depth is always 1 + the number of scopes entered and not
\* yet exited, and when a with statement is over (by return or by an error
\* leaving __exit__) the depth is what it was before its __enter__.
C10_DepthMatchesOpenScopes ==
    /\ Len(stack) = 1 + Len(ctl)
    /\ \A s \in Scopes : Closed(s) => hist[s].after = hist[s].before

\* C13: the stack is never empty, its bottom element is the root frame of
\* __init__, and no exit ever walks the root frame or invokes an entry of
\* its lists.
C13_RootFrameStays ==
    /\ Len(stack) >= 1
    /\ stack[1].owner = 0
    /\ \A s \in Scopes : hist[s].status # "open" => hist[s].frame # 0
    /\ \A i \in LogIdx : regs[log[i].id].frame # 0

\* C13 witness: the root frame holds a registration, scopes have been
\* entered and exited since, and only the root frame is left.
C13_Witness ==
    /\ Len(stack) = 1
    /\ ctl = <<>>
    /\ \E r \in RegIds : \E s \in Scopes :
           /\ regs[r].frame = 0
           /\ Closed(s)
           /\ r <= hist[s].nregs
           /\ \E j \in 1..Len(stack[1][regs[r].kind]) :
                  stack[1][regs[r].kind][j].id = r

\* C14: no registration is invoked by more than one exit.
C14_DrainedOnce ==
    \A r \in RegIds :
        Cardinality({log[i].exit : i \in {j \in LogIdx : log[j].id = r}}) <= 1

\* The registrations of the frame walked by the exit of scope s that this
\* exit did not invoke although they were in the list of kind k.
Skipped(s, k) ==
    {r \in RegIds : /\ r <= hist[s].nregs
                    /\ regs[r].frame = hist[s].frame
                    /\ regs[r].kind = k
                    /\ Count(s, r) = 0}

C16_ErrorUnwindsEveryScope ==
    \A t \in Scopes :
        LET s == hist[t].parent IN
        (/\ s # 0
         /\ Closed(t) /\ hist[t].exc # None
         /\ Closed(s) /\ hist[s].uncaught) =>
            /\ hist[s].exc # None
            /\ \A r \in RegIds :
                   regs[r].scope \in {s, t} =>
                       Count(regs[r].scope, r) =
                           IF regs[r].kind = "success" THEN 0 ELSE 1
            /\ \A i, j \in LogIdx :
                   (log[i].exit = t /\ log[j].exit = s) => i < j

Kinds == {"callback", "success", "failure"}

\* C17: a registration call appends one entry to one list of the top frame
\* and changes nothing else (no other list, no frame beneath, no depth, no
\* invocation); __enter__ only pushes an empty frame; every step of
\* __exit__ leaves the frames beneath the top one as they are, and the only
\* change it makes to the stack is to remove the top frame.
C17_FrameEffects ==
    [][/\ Len(regs') > Len(regs) =>
              LET new == regs'[Len(regs')] IN
              /\ Len(regs') = Len(regs) + 1
              /\ log' = log
              /\ Len(stack') = Len(stack)
              /\ Front(stack') = Front(stack)
              /\ stack'[Len(stack)][new.kind] =
                     Append(stack[Len(stack)][new.kind],
                            [fn |-> new.fn, id |-> Len(regs')])
              /\ \A k \in Kinds \ {new.kind} :
                     stack'[Len(stack)][k] = stack[Len(stack)][k]
       /\ Len(stack') > Len(stack) =>
              /\ Front(stack') = stack
              /\ \A k \in Kinds : stack'[Len(stack')][k] = <<>>
              /\ log' = log
              /\ regs' = regs
       /\ pc = "exit" =>
              /\ stack' \in {stack, Front(stack)}
              /\ regs' = regs]_vars

\* C17 witness: a registration was made on an inner frame while the frame
\* beneath it held a registration of its own, and the inner scope has
\* exited since.
C17_Witness ==
    \E a, b \in RegIds :
        /\ a < b
        /\ regs[a].frame # regs[b].frame
        /\ regs[b].scope # 0
        /\ Closed(regs[b].scope)
        /\ \E f \in 1..Len(stack) :
               /\ stack[f].owner = regs[a].frame
               /\ \E j \in 1..Len(stack[f][regs[a].kind]) :
                      stack[f][regs[a].kind][j].id = a

\* C18: an action registered at module level is stored in the root frame,
\* stays in the root frame's list, and is never invoked.
C18_ModuleLevelRegistrationStaysInRoot ==
    \A r \in RegIds :
        regs[r].scope = 0 =>
            /\ regs[r].frame = 0
            /\ \E j \in 1..Len(stack[1][regs[r].kind]) :
                   stack[1][regs[r].kind][j].id = r
            /\ \A i \in LogIdx : log[i].id # r

\* C11 (as stated): a registration call made at module level, with only
\* the root frame on the stack, is never accepted.
C11_RootRegistrationFaults ==
    \A r \in RegIds : ~(regs[r].scope = 0 /\ regs[r].frame = 0)

\* C11 (amended): a registration call made at module level with only the
\* root frame on the stack raises nothing: the action is appended to the
\* list of the root frame and the program goes on.
C11_RootRegistrationAccepted ==
    [][(pc = "run" /\ ctl = <<>> /\ Len(stack) = 1) =>
           /\ err' # IndexError
           /\ Len(regs') > Len(regs) =>
                  LET new == regs'[Len(regs')] IN
                  /\ pc' = "run"
                  /\ new.frame = 0
                  /\ stack[1].owner = 0
                  /\ stack'[1][new.kind] =
                         Append(stack[1][new.kind],
                                [fn |-> new.fn, id |-> Len(regs')])]_vars

\* C11 witness: a registration made at module level sits in the root
\* frame and the program is running.
C11_Witness ==
    /\ pc = "run"
    /\ \E r \in RegIds :
           /\ regs[r].scope = 0
           /\ regs[r].frame = 0
           /\ stack[1].owner = 0
           /\ \E j \in 1..Len(stack[1][regs[r].kind]) :
                  stack[1][regs[r].kind][j].id = r

\* C12: __exit__ called with no matching __enter__ while only the root
\* frame is on the stack faults: it invokes nothing and leaves the stack
\* as it is.
C12_UnmatchedExitFaults ==
    \A s \in Scopes :
        (hist[s].parent = Direct /\ hist[s].before = 1 /\ Closed(s)) =>
            /\ hist[s].out = IndexError
            /\ hist[s].after = 1
            /\ \A i \in LogIdx : log[i].exit # s

\* C19: a registration made by an action running in the exit of scope s
\* lands in the frame that exit walks; one appended to the unconditional
\* list while that list is walked is not invoked by the exit and is gone
\* from the stack when the exit is over; one appended while the success or
\* failure list is walked has been invoked once when the exit is over; and
\* no exit invokes a registration twice.
C19_RegistrationDuringExit ==
    /\ \A r \in RegIds :
           regs[r].phase # 0 =>
               LET s == regs[r].scope IN
               /\ regs[r].frame = hist[s].frame
               /\ regs[r].phase = 2 => Count(s, r) = 0
               /\ (regs[r].phase = 2 /\ Closed(s)) =>
                      \A f \in 1..Len(stack) :
                          \A j \in 1..Len(stack[f].callback) :
                              stack[f].callback[j].id # r
               /\ (regs[r].phase = 1 /\ Closed(s)) => Count(s, r) = 1
    /\ \A s \in Scopes : \A r \in RegIds : Count(s, r) <= 1

MLogIdx == 1..Len(mlog)

\* C20: with one State per thread, every registration lands in the frame
\* its own thread entered, every invocation is made by the exit of the
\* thread that registered the action, on the list that thread's own outcome
\* selects, and every exit pops the frame its own thread entered.
C20_OneStatePerThreadIsolated ==
    (~shared) =>
        /\ \A i \in MLogIdx :
               /\ mlog[i].what = "reg" => mlog[i].frame = mlog[i].by
               /\ mlog[i].what = "call" =>
                      /\ mlog[i].of = mlog[i].by
                      /\ mlog[i].kind \in
                             {"callback",
                              IF th[mlog[i].of].exc # None
                              THEN "failure" ELSE "success"}
        /\ \A t \in Threads : th[t].popped \in {0, t}

\* C20 witness: on a shared State, a failure action registered by one
\* thread, whose own block returned normally and whose exit is over, has
\* been invoked by the failing exit of the other thread, after landing in
\* the frame the other thread entered.
C20_Witness ==
    /\ shared
    /\ \E i, j \in MLogIdx :
           /\ i < j
           /\ mlog[i].what = "reg"
           /\ mlog[i].frame # mlog[i].by
           /\ mlog[j].what = "call"
           /\ mlog[j].of = mlog[i].by
           /\ mlog[j].by # mlog[j].of
           /\ mlog[j].kind = "failure"
           /\ th[mlog[j].of].pc = "done"
           /\ th[mlog[j].of].out = None
           /\ th[mlog[j].of].exc = None

====
